---- MODULE Spec2Model ----
(***************************************************************************)
(* TeleCheck request authentication / authorization boundary:              *)
(* authenticateToken and requireRole of server/middleware/auth.ts, with    *)
(* the dbPool of server/config/database.ts as the user store.              *)
(*                                                                         *)
(* A request is followed from its arrival through authenticateToken (which *)
(* suspends once, at the store lookup) to a role gate built by requireRole.*)
(*                                                                         *)
(* Around it: the load of server/config/database.ts, startServer of the    *)
(* start-up script and healthCheck (proc); updateMessagingConfig of the    *)
(* AdminSettings page (page); dismissHealthInsight of the DatabaseAdapter  *)
(* (adapter).  Each specification follows one of these components and      *)
(* leaves the others unobserved.                                           *)
(***************************************************************************)
EXTENDS Integers, Sequences, FiniteSets, TLC

VARIABLES env, dbPool, req, proc, page, adapter

vars == <<env, dbPool, req, proc, page, adapter>>

----------------------------------------------------------------------------
(* Bounds of the model *)

\* longest request URL, counted in path segments
MaxUrlLen == 2
\* latest wall-clock reading, in whole seconds
MaxNowSec == 2

----------------------------------------------------------------------------
(* Values *)

\* the value of a component that the specification at hand does not follow
Unobserved == "unobserved"

\* the server process, the admin page and the adapter are not followed
AuthOnly == proc = Unobserved /\ page = Unobserved /\ adapter = Unobserved

\* a JavaScript undefined (a missing property / header)
Undefined == "undefined"

\* JavaScript truthiness of a string-or-undefined value
Truthy(v) == v /= Undefined /\ v /= ""

\* a || b on string-or-undefined values
OrElse(a, b) == IF Truthy(a) THEN a ELSE b

UserIds == {"u1", "u2"}
TokenRoles == {"admin", "doctor"}
TokenEmail == "token@example.com"

\* exp claims: an option (the empty set is a missing claim). 0 is the falsy
\* number; 2 is a timestamp in seconds, 1500 one in milliseconds.
ExpValues == {0, 2, 1500}

\* the payload of a token: the properties the middleware reads
Claims ==
    [id : {Undefined, "u1"},
     userId : {Undefined, "u2"},
     email : {Undefined, TokenEmail},
     role : {Undefined} \cup TokenRoles,
     exp : {{}} \cup {{e} : e \in ExpValues}]

NoClaims ==
    [id |-> Undefined, userId |-> Undefined, email |-> Undefined,
     role |-> Undefined, exp |-> {}]

\* claims carried by tokens signed with a key other than JWT_SECRET
ForgedClaims == {c \in Claims : c.email = Undefined /\ c.exp = {}}

\* A token string, described by what jwt.verify, atob and JSON.parse make of it:
\*   format "jwt"        header.payload.signature, signed with `key`
\*   format "base64json" base64 of a JSON text whose value is `json`
\*   format "garbage"    neither
\*   format "empty"      the empty string
TokenOf(format, key, json, claims) ==
    [format |-> format, key |-> key, json |-> json, claims |-> claims]

EmptyToken == TokenOf("empty", "none", "none", NoClaims)
GarbageToken == TokenOf("garbage", "none", "none", NoClaims)

Tokens ==
    {TokenOf("jwt", "JWT_SECRET", "object", c) : c \in Claims}
    \cup {TokenOf("jwt", "otherKey", "object", c) : c \in ForgedClaims}
    \cup {TokenOf("base64json", "none", "object", c) : c \in Claims}
    \cup {TokenOf("base64json", "none", j, NoClaims) : j \in {"null", "number"}}
    \cup {GarbageToken}

\* An Authorization header: absent, or the parts that split(' ') yields
\* (the scheme word, then the rest).
NoHeader == [present |-> FALSE, scheme |-> "", rest |-> <<>>]
HeaderOf(scheme, rest) == [present |-> TRUE, scheme |-> scheme, rest |-> rest]

Headers ==
    {NoHeader, HeaderOf("Bearer", <<>>), HeaderOf("Bearer", <<EmptyToken>>)}
    \cup {HeaderOf("Bearer", <<t>>) : t \in Tokens}

\* A request URL as its sequence of segments
UrlSegments == {"/patients", "/api"}
Urls == UNION {[1..n -> UrlSegments] : n \in 1..MaxUrlLen}

\* Date.now(), in milliseconds
Times == {s * 1000 : s \in 1..MaxNowSec}

\* allow-lists a route may pass to requireRole
GateRoles == {"admin", "doctor", "pharmacist"}
AllowLists == SUBSET GateRoles

----------------------------------------------------------------------------
(* Configuration and user store *)

Envs == [NODE_ENV : {"production", "development"}, FLY_APP_NAME : {Undefined, "telecheck-demo"}]

\* a NULL column of a row
SqlNull == "null"

\* rows of the users table: id -> option of (id, email, role)
RowOf(u, role) == [id |-> u, email |-> u \o "@clinic.example", role |-> role]
\* a row inserted without email and role (createUser inserts only the keys given)
BareRowOf(u) == [id |-> u, email |-> SqlNull, role |-> SqlNull]
EmptyStore == [u \in UserIds |-> {}]
Stores ==
    {[u \in UserIds |-> IF u \in present THEN {RowOf(u, IF u = "u1" THEN "doctor" ELSE "admin")} ELSE {}]
        : present \in SUBSET UserIds}
    \cup {[u \in UserIds |-> IF u = "u1" THEN {BareRowOf(u)} ELSE rest] : rest \in {{}, {RowOf("u2", "admin")}}}

\* dbPool: null unless DATABASE_URL or DB_HOST is set; the module throws at
\* load in production without them
NullPool == [configured |-> FALSE, users |-> EmptyStore]
Pools(e) ==
    {[configured |-> TRUE, users |-> s] : s \in Stores}
    \cup (IF e.NODE_ENV = "production" THEN {} ELSE {NullPool})

----------------------------------------------------------------------------
(* Pure steps of authenticateToken *)

\* authHeader && authHeader.split(' ')[1], then !token: the option of a token
ResolveToken(header) ==
    IF header.present /\ Len(header.rest) >= 1 /\ header.rest[1].format /= "empty"
    THEN {header.rest[1]}
    ELSE {}

\* req.url.includes('/patients')
UrlIncludesPatients(url) == \E i \in 1..Len(url) : url[i] = "/patients"

\* the condition under which a demo user replaces a rejection
DemoFallbackAlways(e, url) == TRUE
DemoFallbackNoPatients(e, url) ==
    Truthy(e.FLY_APP_NAME) \/ e.NODE_ENV /= "production"
DemoFallback(e, url) ==
    \/ Truthy(e.FLY_APP_NAME)
    \/ UrlIncludesPatients(url)
    \/ e.NODE_ENV /= "production"

DemoUser == [id |-> "demo-user", email |-> "demo@example.com", role |-> "admin"]

\* jwt.verify(token, secret): succeeds for a token signed with the secret whose
\* exp claim, if any, is later than the clock in whole seconds
JwtVerifies(token, now) ==
    /\ token.format = "jwt"
    /\ token.key = "JWT_SECRET"
    /\ \A e \in token.claims.exp : (now \div 1000) < e

\* atob + JSON.parse + the property reads of the log line: succeeds for base64
\* of a JSON text other than null
MockDecodes(token) ==
    /\ token.format = "base64json"
    /\ token.json /= "null"

\* decoded.exp && Date.now() > decoded.exp
MockExpiredDefaultLifetime(decoded, now) ==
    \E e \in (IF decoded.exp = {} THEN {1500} ELSE decoded.exp) : e /= 0 /\ now > e
MockExpired(decoded, now) ==
    \E e \in decoded.exp : e /= 0 /\ now > e

\* dbPool && decoded.id
NeedsLookupCached(pool, decoded) ==
    /\ pool.configured
    /\ Truthy(decoded.id)
    /\ \A x \in DOMAIN req : req[x].lookup /= "answered"
NeedsLookup(pool, decoded) == pool.configured /\ Truthy(decoded.id)

\* the identity built without the store
UserFromClaimsUserIdFirst(decoded) ==
    [id |-> OrElse(decoded.userId, OrElse(decoded.id, "demo-user")),
     email |-> OrElse(decoded.email, "demo@example.com"),
     role |-> OrElse(decoded.role, "admin")]
UserFromClaims(decoded) ==
    [id |-> OrElse(decoded.id, OrElse(decoded.userId, "demo-user")),
     email |-> OrElse(decoded.email, "demo@example.com"),
     role |-> OrElse(decoded.role, "admin")]

\* the identity built from the row the store returned
UserFromRowKeepsTokenRole(row, decoded) ==
    [id |-> row.id, email |-> row.email, role |-> OrElse(decoded.role, row.role)]
UserFromRow(row, decoded) ==
    [id |-> row.id, email |-> row.email, role |-> row.role]

\* SELECT id, email, role FROM users WHERE id = $1
QueryRows(pool, id) == pool.users[id]

Response(status, code) == [status |-> status, code |-> code]

----------------------------------------------------------------------------
(* State of a request *)

NewRequest(header, url) ==
    [header |-> header, url |-> url,
     pc |-> "received",
     now |-> 0,
     via |-> "none",
     decoded |-> NoClaims,
     user |-> {},
     res |-> <<>>,
     nextCalls |-> 0,
     queries |-> 0,
     lookup |-> "none",
     nextThrows |-> FALSE,
     gate |-> {},
     gateRes |-> <<>>,
     gateNext |-> 0]

Init ==
    /\ env \in Envs
    /\ dbPool \in Pools(env)
    /\ req \in [{"r1"} -> {NewRequest(h, u) : h \in Headers, u \in Urls}]
    /\ AuthOnly

\* res.status(s).json({code}) and return
Reject(q, status, code) ==
    [q EXCEPT !.pc = "rejected", !.res = Append(@, Response(status, code))]

\* req.user = user; next(); return. A next() that throws lands in the outer
\* catch of lines 140-146.
ProceedUncaught(q, user) ==
    IF q.nextThrows
    THEN [q EXCEPT !.pc = "rejected", !.user = {user}, !.nextCalls = @ + 1]
    ELSE [q EXCEPT !.pc = "proceeded", !.user = {user}, !.nextCalls = @ + 1]
Proceed(q, user) ==
    IF q.nextThrows
    THEN [q EXCEPT !.pc = "rejected", !.user = {user}, !.nextCalls = @ + 1,
                   !.res = Append(@, Response(500, "AUTH_ERROR"))]
    ELSE [q EXCEPT !.pc = "proceeded", !.user = {user}, !.nextCalls = @ + 1]

\* lines 33-52 and 77-99: the demo user, or the rejection
FallbackOrReject(q, code) ==
    IF DemoFallback(env, q.url)
    THEN Proceed(q, DemoUser)
    ELSE Reject(q, 401, code)

\* lines 103-139, up to the await
Resolve(q, decoded, via) ==
    LET d == [q EXCEPT !.decoded = decoded, !.via = via] IN
    IF NeedsLookup(dbPool, decoded)
    THEN [d EXCEPT !.pc = "awaitingStore", !.queries = @ + 1, !.lookup = "pending"]
    ELSE Proceed(d, UserFromClaims(decoded))

\* authenticateToken from its entry to its first suspension or its return
AuthenticateSync(q0, now) ==
    LET q == [q0 EXCEPT !.now = now]
        tok == ResolveToken(q.header)
    IN  IF tok = {}
        THEN FallbackOrReject(q, "TOKEN_MISSING")
        ELSE LET token == CHOOSE t \in tok : TRUE IN
             IF JwtVerifies(token, now)
             THEN Resolve(q, token.claims, "jwt")
             ELSE IF MockDecodes(token)
                  THEN IF MockExpired(token.claims, now)
                       THEN Reject([q EXCEPT !.decoded = token.claims, !.via = "mock"],
                                   401, "TOKEN_EXPIRED")
                       ELSE Resolve(q, token.claims, "mock")
                  ELSE FallbackOrReject(q, "TOKEN_INVALID")

AuthenticateToken(r) ==
    /\ req[r].pc = "received"
    /\ \E now \in Times : req' = [req EXCEPT ![r] = AuthenticateSync(req[r], now)]
    /\ UNCHANGED <<env, dbPool, proc, page, adapter>>

\* the outcome of an answered lookup: lines 107-122 and 139
OnRowsFallsBack(q, rows) ==
    IF rows = {}
    THEN Proceed(q, DemoUser)
    ELSE Proceed(q, UserFromRow(CHOOSE row \in rows : TRUE, q.decoded))
\* (the 401 sent without the return that ends the call)
OnRowsNoReturn(q, rows) ==
    IF rows = {}
    THEN Reject(Reject(q, 401, "USER_NOT_FOUND"), 500, "DB_ERROR")
    ELSE Proceed(q, UserFromRow(CHOOSE row \in rows : TRUE, q.decoded))
OnRows(q, rows) ==
    IF rows = {}
    THEN Reject(q, 401, "USER_NOT_FOUND")
    ELSE Proceed(q, UserFromRow(CHOOSE row \in rows : TRUE, q.decoded))

\* the outcome of a failed lookup: lines 123-129
OnDbErrorAsAuthFailure(q) == Reject(q, 401, "TOKEN_INVALID")
OnDbError(q) == Reject(q, 500, "DB_ERROR")

\* [decoded.id], the parameter of the query of request r: decoded is a local
\* of the call (line 55)
LookupKeyShared(r) ==
    LET others == {x \in DOMAIN req \ {r} : req[x].pc = "awaitingStore"} IN
    IF others = {} THEN req[r].decoded.id ELSE req[CHOOSE x \in others : TRUE].decoded.id
LookupKey(r) == req[r].decoded.id

\* the await of dbPool.query resolves
StoreReplies(r) ==
    /\ req[r].pc = "awaitingStore"
    /\ req' = [req EXCEPT ![r] = OnRows([req[r] EXCEPT !.lookup = "answered"],
                                        QueryRows(dbPool, LookupKey(r)))]
    /\ UNCHANGED <<env, dbPool, proc, page, adapter>>

\* the await of dbPool.query rejects
StoreFails(r) ==
    /\ req[r].pc = "awaitingStore"
    /\ req' = [req EXCEPT ![r] = OnDbError([req[r] EXCEPT !.lookup = "failed"])]
    /\ UNCHANGED <<env, dbPool, proc, page, adapter>>

----------------------------------------------------------------------------
(* requireRole *)

\* roles.includes(req.user.role)
RoleIncludedAdminAlways(roles, user) == user.role \in roles \/ user.role = "admin"
RoleIncluded(roles, user) == user.role \in roles

\* the middleware requireRole(roles) returns, run on a request
GateOutcomeNoIdentityPasses(q, roles) ==
    LET g == [q EXCEPT !.gate = {roles}] IN
    IF q.user /= {} /\ ~RoleIncluded(roles, CHOOSE u \in q.user : TRUE)
    THEN [g EXCEPT !.pc = "denied",
                   !.gateRes = Append(@, Response(403, "INSUFFICIENT_PERMISSIONS"))]
    ELSE [g EXCEPT !.pc = "permitted", !.gateNext = @ + 1]
GateOutcome(q, roles) ==
    LET g == [q EXCEPT !.gate = {roles}] IN
    IF q.user = {}
    THEN [g EXCEPT !.pc = "denied", !.gateRes = Append(@, Response(401, "AUTH_REQUIRED"))]
    ELSE IF ~RoleIncluded(roles, CHOOSE u \in q.user : TRUE)
         THEN [g EXCEPT !.pc = "denied",
                        !.gateRes = Append(@, Response(403, "INSUFFICIENT_PERMISSIONS"))]
         ELSE [g EXCEPT !.pc = "permitted", !.gateNext = @ + 1]

\* the route's gate runs once authenticateToken has called next()
RequireRole(r) ==
    /\ req[r].pc = "proceeded"
    /\ \E roles \in AllowLists : req' = [req EXCEPT ![r] = GateOutcome(req[r], roles)]
    /\ UNCHANGED <<env, dbPool, proc, page, adapter>>

\* a route that mounts the gate without authenticateToken before it
RequireRoleAlone(r) ==
    /\ req[r].pc = "received"
    /\ \E roles \in AllowLists : req' = [req EXCEPT ![r] = GateOutcome(req[r], roles)]
    /\ UNCHANGED <<env, dbPool, proc, page, adapter>>

requireAdmin == {"admin"}
requireDoctorOnly == {"doctor"}
requireDoctor == {"doctor", "admin"}
requirePharmacist == {"pharmacist", "admin"}

----------------------------------------------------------------------------

Next ==
    \E r \in DOMAIN req :
        \/ AuthenticateToken(r)
        \/ StoreReplies(r)
        \/ StoreFails(r)
        \/ RequireRole(r)

Spec == Init /\ [][Next]_vars

----------------------------------------------------------------------------
(* Headers of every shape, a next() that may throw, gates mounted alone *)

EdgeClaims(id, userId, role) ==
    [id |-> id, userId |-> userId, email |-> Undefined, role |-> role, exp |-> {}]

EdgeTokens ==
    {TokenOf("jwt", "JWT_SECRET", "object", EdgeClaims("u1", Undefined, "doctor")),
     TokenOf("base64json", "none", "object", EdgeClaims(Undefined, "u2", "admin")),
     GarbageToken}

\* no header; 'Bearer'; 'Bearer '; a token without a scheme; 'Bearer  <token>';
\* 'Bearer <token>'; 'Basic <token>'
EdgeHeaders ==
    {NoHeader, HeaderOf("Bearer", <<>>), HeaderOf("Bearer", <<EmptyToken>>),
     HeaderOf("eyJhbGciOiJIUzI1NiJ9", <<>>)}
    \cup {HeaderOf("Bearer", <<EmptyToken, t>>) : t \in EdgeTokens}
    \cup {HeaderOf(scheme, <<t>>) : scheme \in {"Bearer", "Basic"}, t \in EdgeTokens}

InitEdge ==
    /\ env \in Envs
    /\ dbPool \in Pools(env)
    /\ req \in [{"r1"} -> {[NewRequest(h, u) EXCEPT !.nextThrows = throws] :
                              h \in EdgeHeaders, u \in Urls, throws \in BOOLEAN}]
    /\ AuthOnly

NextEdge ==
    \E r \in DOMAIN req :
        \/ AuthenticateToken(r)
        \/ StoreReplies(r)
        \/ StoreFails(r)
        \/ RequireRole(r)
        \/ RequireRoleAlone(r)

SpecEdge == InitEdge /\ [][NextEdge]_vars

----------------------------------------------------------------------------
(* Two requests in flight at once *)

PairClaims(id, userId, role, exp) ==
    [id |-> id, userId |-> userId, email |-> Undefined, role |-> role, exp |-> exp]

PairTokens ==
    {TokenOf("jwt", "JWT_SECRET", "object", PairClaims("u1", Undefined, "admin", {})),
     TokenOf("jwt", "JWT_SECRET", "object", PairClaims("u2", Undefined, "doctor", {})),
     TokenOf("base64json", "none", "object", PairClaims(Undefined, "u2", "doctor", {})),
     TokenOf("base64json", "none", "object", PairClaims("u1", Undefined, Undefined, {1500})),
     GarbageToken}

PairHeaders == {NoHeader} \cup {HeaderOf("Bearer", <<t>>) : t \in PairTokens}
PairUrls == {<<"/api">>, <<"/patients">>}

InitPair ==
    /\ env \in Envs
    /\ dbPool \in Pools(env)
    /\ req \in [{"r1", "r2"} -> {NewRequest(h, u) : h \in PairHeaders, u \in PairUrls}]
    /\ AuthOnly

NextPair ==
    \E r \in DOMAIN req :
        \/ AuthenticateToken(r)
        \/ StoreReplies(r)
        \/ StoreFails(r)

SpecPair == InitPair /\ [][NextPair]_vars

----------------------------------------------------------------------------
(* Vocabulary of the properties *)

\* authenticateToken has returned for q
Returned(q) == q.pc \in {"rejected", "proceeded", "permitted", "denied"}

\* q was answered with exactly this rejection and nothing else happened to it
RejectedWith(q, status, code) ==
    /\ q.pc = "rejected"
    /\ q.res = <<Response(status, code)>>
    /\ q.nextCalls = 0
    /\ q.user = {}

\* q went on to its handler with exactly this identity and no response
ProceededAs(q, user) ==
    /\ q.pc \in {"proceeded", "permitted", "denied"}
    /\ q.res = <<>>
    /\ q.nextCalls = 1
    /\ q.user = {user}

\* the request carries no usable token
NoToken(q) == ResolveToken(q.header) = {}

\* the token the request carries (meaningful when ~NoToken(q))
TokenIn(q) == CHOOSE t \in ResolveToken(q.header) : TRUE

\* a Demo-Fallback trigger of section 4.4 holds for q
AnyTrigger(q) ==
    \/ env.FLY_APP_NAME /= Undefined
    \/ \E i \in DOMAIN q.url : q.url[i] = "/patients"
    \/ env.NODE_ENV /= "production"

\* the token fails signed verification and is a base64 JSON object
IsMockEnvelope(q) ==
    /\ ~NoToken(q)
    /\ ~JwtVerifies(TokenIn(q), q.now)
    /\ TokenIn(q).format = "base64json"
    /\ TokenIn(q).json = "object"

\* both validation attempts fail on the token
BothAttemptsFail(q) ==
    /\ ~NoToken(q)
    /\ ~JwtVerifies(TokenIn(q), q.now)
    /\ TokenIn(q).format /= "base64json"

----------------------------------------------------------------------------
(* C1 *)

\* C1: a request without a token, in production, with no demo marker and a URL
\* that does not contain '/patients', is answered 401 TOKEN_MISSING; next() is
\* not called and no identity is attached.
C1_MissingTokenRejected ==
    \A r \in DOMAIN req :
        (/\ Returned(req[r])
         /\ NoToken(req[r])
         /\ ~AnyTrigger(req[r]))
        => RejectedWith(req[r], 401, "TOKEN_MISSING")

C1_Witness ==
    \E r \in DOMAIN req :
        /\ req[r].header = NoHeader
        /\ env.NODE_ENV = "production"
        /\ ~AnyTrigger(req[r])
        /\ req[r].pc = "rejected"
        /\ req[r].res = <<Response(401, "TOKEN_MISSING")>>

----------------------------------------------------------------------------
(* C2 *)

\* C2: with NODE_ENV = 'production' no request whose token is missing or fails
\* both validations proceeds with the synthetic identity, whatever FLY_APP_NAME
\* and the request path are.
C2_ProductionRefusesFallback ==
    env.NODE_ENV = "production" =>
        \A r \in DOMAIN req :
            (Returned(req[r]) /\ (NoToken(req[r]) \/ BothAttemptsFail(req[r])))
            => req[r].nextCalls = 0 /\ req[r].user = {}

----------------------------------------------------------------------------
(* C3 *)

\* C3: with NODE_ENV = 'production' a token that fails signed verification is
\* never accepted by base64/JSON decoding: no request proceeds with an identity
\* taken from an unsigned token.
C3_ProductionNoMockEnvelope ==
    env.NODE_ENV = "production" =>
        \A r \in DOMAIN req :
            (Returned(req[r]) /\ IsMockEnvelope(req[r]))
            => req[r].nextCalls = 0 /\ req[r].user = {}

----------------------------------------------------------------------------
(* C4 *)

\* C4: a mock envelope whose expiry timestamp is earlier than the current time
\* is always answered 401 TOKEN_EXPIRED, whatever its other fields and whatever
\* the demo-fallback conditions; next() is not called, no identity is attached.
C4_ExpiredMockRejected ==
    \A r \in DOMAIN req :
        (/\ Returned(req[r])
         /\ IsMockEnvelope(req[r])
         /\ \E e \in TokenIn(req[r]).claims.exp : e < req[r].now)
        => RejectedWith(req[r], 401, "TOKEN_EXPIRED")

----------------------------------------------------------------------------
(* C5 *)

\* C5: when both validation attempts fail, the request is answered 401
\* TOKEN_INVALID with no identity attached unless a Demo-Fallback trigger holds;
\* exactly when one holds it proceeds with the synthetic identity.
C5_InvalidTokenOutcome ==
    \A r \in DOMAIN req :
        (Returned(req[r]) /\ BothAttemptsFail(req[r]))
        => IF AnyTrigger(req[r])
           THEN ProceededAs(req[r], DemoUser) /\ req[r].queries = 0
           ELSE RejectedWith(req[r], 401, "TOKEN_INVALID")

C5_Witness ==
    \E r \in DOMAIN req :
        /\ BothAttemptsFail(req[r])
        /\ TokenIn(req[r]).format = "jwt"
        /\ ~AnyTrigger(req[r])
        /\ req[r].pc = "rejected"
        /\ req[r].res = <<Response(401, "TOKEN_INVALID")>>

----------------------------------------------------------------------------
(* C6 *)

\* the (status, code) pairs authenticateToken rejects with
AuthFailures ==
    {Response(401, "TOKEN_MISSING"), Response(401, "TOKEN_EXPIRED"),
     Response(401, "TOKEN_INVALID"), Response(401, "USER_NOT_FOUND"),
     Response(500, "DB_ERROR"), Response(500, "AUTH_ERROR")}

\* C6: for every identity whose role is not in the allow-list (the empty list
\* included, identities of every path of authenticateToken included) the gate
\* answers 403 INSUFFICIENT_PERMISSIONS, a status and a code that no
\* authentication failure uses, and never calls next().
C6_RoleGateDenies ==
    \A r \in DOMAIN req :
        /\ \A i \in DOMAIN req[r].res :
              /\ req[r].res[i] \in AuthFailures
              /\ req[r].res[i].status /= 403
              /\ req[r].res[i].code /= "INSUFFICIENT_PERMISSIONS"
        /\ \A roles \in req[r].gate : \A u \in req[r].user :
              u.role \notin roles
              => /\ req[r].pc = "denied"
                 /\ req[r].gateRes = <<Response(403, "INSUFFICIENT_PERMISSIONS")>>
                 /\ req[r].gateNext = 0

C6_Witness ==
    \E r \in DOMAIN req :
        /\ req[r].gate = {{}}
        /\ req[r].lookup = "answered"
        /\ \E u \in req[r].user : u.role = "doctor"
        /\ req[r].pc = "denied"
        /\ req[r].gateRes = <<Response(403, "INSUFFICIENT_PERMISSIONS")>>

----------------------------------------------------------------------------
(* C7 *)

\* C7: with a user store configured, a validated token whose id claim names a
\* user the store does not contain is answered 401 USER_NOT_FOUND once the
\* lookup is answered; next() is not called, no identity is attached and the
\* demo-fallback is not applied.
C7_UnknownUserRejected ==
    \A r \in DOMAIN req :
        (/\ req[r].lookup = "answered"
         /\ dbPool.configured
         /\ ~NoToken(req[r])
         /\ TokenIn(req[r]).claims.id \in UserIds
         /\ dbPool.users[TokenIn(req[r]).claims.id] = {})
        => RejectedWith(req[r], 401, "USER_NOT_FOUND")

C7_Witness ==
    \E r \in DOMAIN req :
        /\ req[r].lookup = "answered"
        /\ req[r].via = "jwt"
        /\ dbPool.users[req[r].decoded.id] = {}
        /\ AnyTrigger(req[r])
        /\ req[r].res = <<Response(401, "USER_NOT_FOUND")>>

----------------------------------------------------------------------------
(* C8 *)

\* C8: when the store lookup fails, the request ends with 500 DB_ERROR: not a
\* 401, not a demo-fallback success, the store queried once only, no identity
\* attached and next() not called.
C8_StoreFailureIsDbError ==
    \A r \in DOMAIN req :
        req[r].lookup = "failed"
        => /\ RejectedWith(req[r], 500, "DB_ERROR")
           /\ req[r].queries = 1

C8_Witness ==
    \E r \in DOMAIN req :
        /\ req[r].lookup = "failed"
        /\ AnyTrigger(req[r])
        /\ req[r].res = <<Response(500, "DB_ERROR")>>

----------------------------------------------------------------------------
(* C9 *)

\* C9: when the id claim of a validated token is found in the store, the
\* identity is the stored row's id, email and role, whatever the token claims;
\* a following gate permits exactly when the stored role is in its allow-list.
C9_StoredValuesWin ==
    \A r \in DOMAIN req :
        (/\ req[r].lookup = "answered"
         /\ ~NoToken(req[r])
         /\ TokenIn(req[r]).claims.id \in UserIds
         /\ dbPool.users[TokenIn(req[r]).claims.id] /= {})
        => \A row \in dbPool.users[TokenIn(req[r]).claims.id] :
              /\ ProceededAs(req[r], [id |-> row.id, email |-> row.email, role |-> row.role])
              /\ \A roles \in req[r].gate :
                    /\ req[r].pc = (IF row.role \in roles THEN "permitted" ELSE "denied")
                    /\ req[r].gateNext = (IF row.role \in roles THEN 1 ELSE 0)

\* token role 'admin', stored role 'doctor': requireAdmin rejects
C9_Witness ==
    \E r \in DOMAIN req :
        /\ req[r].lookup = "answered"
        /\ req[r].decoded.role = "admin"
        /\ \E u \in req[r].user : u.role = "doctor" /\ u.email /= req[r].decoded.email
        /\ req[r].gate = {requireAdmin}
        /\ req[r].pc = "denied"

----------------------------------------------------------------------------
(* C10 *)

\* the subject a token's claims name: the id claim, else the userId claim
SubjectOf(claims) == IF Truthy(claims.id) THEN claims.id ELSE claims.userId

\* C10: for a token that verifies under the signing secret and whose request
\* proceeds, the identity's id is the subject id of the signed claims, with or
\* without a user store, whether the id or the userId claim carries it.
C10_SignedSubjectKept ==
    \A r \in DOMAIN req :
        (/\ ~NoToken(req[r])
         /\ Returned(req[r])
         /\ JwtVerifies(TokenIn(req[r]), req[r].now)
         /\ Truthy(SubjectOf(TokenIn(req[r]).claims))
         /\ req[r].nextCalls > 0)
        => \A u \in req[r].user : u.id = SubjectOf(TokenIn(req[r]).claims)

\* both claims present and different, no store
C10_Witness ==
    \E r \in DOMAIN req :
        /\ req[r].via = "jwt"
        /\ req[r].decoded.id = "u1"
        /\ req[r].decoded.userId = "u2"
        /\ ~dbPool.configured
        /\ req[r].pc = "proceeded"
        /\ \E u \in req[r].user : u.id = "u1"

----------------------------------------------------------------------------
(* C11 *)

\* C11: a request without a token for which any one Demo-Fallback trigger
\* holds proceeds (next() called, no response sent) with the fixed identity
\* demo-user / demo@example.com / admin, and the user store is not consulted.
C11_MissingTokenFallsBack ==
    \A r \in DOMAIN req :
        (/\ Returned(req[r])
         /\ NoToken(req[r])
         /\ AnyTrigger(req[r]))
        => /\ ProceededAs(req[r],
                          [id |-> "demo-user", email |-> "demo@example.com", role |-> "admin"])
           /\ req[r].queries = 0
           /\ req[r].lookup = "none"

\* production, no demo marker, a store configured: the path alone triggers it
C11_Witness ==
    \E r \in DOMAIN req :
        /\ req[r].header = NoHeader
        /\ env.NODE_ENV = "production"
        /\ env.FLY_APP_NAME = Undefined
        /\ dbPool.configured
        /\ req[r].pc = "proceeded"
        /\ req[r].user = {DemoUser}

----------------------------------------------------------------------------
(* C12 *)

\* a value that is present and non-empty
Present(v) == v /= Undefined /\ v /= SqlNull /\ v /= ""

\* C12: whenever next() has been called the request carries an identity whose
\* id, email and role are all present and non-empty.
C12_IdentityComplete ==
    \A r \in DOMAIN req :
        req[r].nextCalls > 0
        => /\ req[r].user /= {}
           /\ \A u \in req[r].user : Present(u.id) /\ Present(u.email) /\ Present(u.role)

----------------------------------------------------------------------------
(* C13 *)

\* what request r would be had it run alone from its header and URL, with the
\* clock reading and the store's answer it got
Alone(r) ==
    LET q0 == [NewRequest(req[r].header, req[r].url) EXCEPT !.nextThrows = req[r].nextThrows]
        a == AuthenticateSync(q0, req[r].now)
    IN  IF req[r].pc = "received" THEN q0
        ELSE IF req[r].lookup = "answered"
             THEN OnRows([a EXCEPT !.lookup = "answered"], QueryRows(dbPool, a.decoded.id))
        ELSE IF req[r].lookup = "failed"
             THEN OnDbError([a EXCEPT !.lookup = "failed"])
        ELSE a

\* C13: in every interleaving of two requests suspended at and resumed from the
\* store lookup in any order, each request's outcome and identity are those of
\* the request run alone; no request carries the identity of the other.
C13_RequestsIndependent ==
    \A r \in DOMAIN req : req[r] = Alone(r)

\* r2 was resumed and got its own row while r1, naming another user, is still
\* suspended
C13_Witness ==
    /\ DOMAIN req = {"r1", "r2"}
    /\ req["r1"].pc = "awaitingStore"
    /\ req["r1"].decoded.id = "u1"
    /\ req["r2"].lookup = "answered"
    /\ req["r2"].decoded.id = "u2"
    /\ \E u \in req["r2"].user : u.id = "u2"

----------------------------------------------------------------------------
(* C15 *)

\* the token of q is a base64 JSON object without an exp field
MockWithoutExpiry(q) ==
    /\ ~NoToken(q)
    /\ TokenIn(q).format = "base64json"
    /\ TokenIn(q).json = "object"
    /\ TokenIn(q).claims.exp = {}

\* what a client sees of a request
Outcome(q) == <<q.pc, q.res, q.user, q.nextCalls>>

\* C15: a mock envelope with no expiry field is validated (neither TOKEN_EXPIRED
\* nor TOKEN_INVALID), and two runs on it get the same outcome whatever the
\* clock reads in each.
C15_NoExpiryIgnoresClock ==
    \A r1, r2 \in DOMAIN req :
        (/\ Returned(req[r1])
         /\ MockWithoutExpiry(req[r1]))
        => /\ req[r1].via = "mock"
           /\ \A i \in DOMAIN req[r1].res :
                 req[r1].res[i].code \notin {"TOKEN_EXPIRED", "TOKEN_INVALID"}
           /\ (/\ Returned(req[r2])
               /\ req[r2].header = req[r1].header
               /\ req[r2].url = req[r1].url
               /\ req[r2].lookup = req[r1].lookup)
              => Outcome(req[r2]) = Outcome(req[r1])

C15_Witness ==
    /\ DOMAIN req = {"r1", "r2"}
    /\ MockWithoutExpiry(req["r1"])
    /\ req["r2"].header = req["r1"].header
    /\ req["r1"].now = 1000
    /\ req["r2"].now = 2000
    /\ req["r1"].pc = "proceeded"
    /\ req["r2"].pc = "proceeded"

----------------------------------------------------------------------------
(* C16 *)

----------------------------------------------------------------------------
(* C14 *)

\* C14: on every rejection path of authenticateToken (TOKEN_MISSING,
\* TOKEN_EXPIRED, TOKEN_INVALID, USER_NOT_FOUND, DB_ERROR, AUTH_ERROR) the
\* identity is unset, next() has not been called, one rejection was sent, and
\* the store was queried at most once.
C14_FailuresLeaveNothing ==
    \A r \in DOMAIN req :
        req[r].pc = "rejected"
        => /\ req[r].user = {}
           /\ req[r].nextCalls = 0
           /\ Len(req[r].res) = 1
           /\ req[r].res[1] \in AuthFailures
           /\ req[r].queries <= 1

----------------------------------------------------------------------------
(* C17 *)

\* C17: a gate run on a request without identity answers 401 AUTH_REQUIRED and
\* does not call next(), for every allow-list; a request that authenticateToken
\* let proceed never gets AUTH_REQUIRED from the gate that follows.
C17_NoIdentityAuthRequired ==
    \A r \in DOMAIN req : \A roles \in req[r].gate :
        /\ req[r].user = {}
           => /\ req[r].pc = "denied"
              /\ req[r].gateRes = <<Response(401, "AUTH_REQUIRED")>>
              /\ req[r].gateNext = 0
        /\ req[r].nextCalls > 0
           => \A i \in DOMAIN req[r].gateRes : req[r].gateRes[i].code /= "AUTH_REQUIRED"

\* requireDoctor mounted alone, on a request that presents a valid token
C17_Witness ==
    \E r \in DOMAIN req :
        /\ req[r].gate = {requireDoctor}
        /\ ~NoToken(req[r])
        /\ JwtVerifies(TokenIn(req[r]), 1000)
        /\ req[r].user = {}
        /\ req[r].pc = "denied"
        /\ req[r].gateRes = <<Response(401, "AUTH_REQUIRED")>>

----------------------------------------------------------------------------
(* C18 *)

\* the header is absent or is not of the form 'Bearer <token>'
Malformed(h) ==
    \/ ~h.present
    \/ h.scheme /= "Bearer"
    \/ Len(h.rest) = 0
    \/ h.rest[1] = EmptyToken

\* C18: from 'Bearer <token>' the token is extracted and validated; a request
\* whose header is absent or malformed (no separator, empty token, a scheme
\* other than Bearer) is handled as a missing token and its token never reaches
\* validation.
C18_ResolverTakesBearerOnly ==
    \A r \in DOMAIN req :
        (Returned(req[r]) /\ req[r].now > 0)
        => IF Malformed(req[r].header)
           THEN /\ req[r].via = "none"
                /\ req[r].queries = 0
                /\ \A i \in DOMAIN req[r].res :
                      req[r].res[i].code \in {"TOKEN_MISSING", "AUTH_ERROR"}
                /\ req[r].nextCalls > 0 => req[r].user = {DemoUser}
           ELSE \A i \in DOMAIN req[r].res : req[r].res[i].code /= "TOKEN_MISSING"

----------------------------------------------------------------------------
(* C19 *)

\* C19: with a store configured, every validated token that names a subject in
\* its id or userId claim is looked up, and its request proceeds only if the
\* store contains that subject.
C19_NamedSubjectIsLookedUp ==
    \A r \in DOMAIN req :
        (/\ dbPool.configured
         /\ Returned(req[r])
         /\ req[r].via /= "none"
         /\ ~(\E i \in DOMAIN req[r].res : req[r].res[i].code = "TOKEN_EXPIRED")
         /\ SubjectOf(req[r].decoded) \in UserIds)
        => /\ req[r].queries = 1
           /\ req[r].nextCalls > 0
              => /\ req[r].lookup = "answered"
                 /\ dbPool.users[SubjectOf(req[r].decoded)] /= {}

----------------------------------------------------------------------------
(* C20 *)

\* C20: the mock-envelope attempt accepts only a decoded payload with an
\* identity field (id or userId) and a role field; base64 of JSON without them
\* ('{}', a bare number) is not accepted as a Credential Envelope.
C20_MockEnvelopeNeedsIdentityAndRole ==
    \A r \in DOMAIN req :
        (/\ Returned(req[r])
         /\ ~NoToken(req[r])
         /\ ~JwtVerifies(TokenIn(req[r]), req[r].now)
         /\ TokenIn(req[r]).format = "base64json"
         /\ ~(/\ Truthy(SubjectOf(TokenIn(req[r]).claims))
              /\ Truthy(TokenIn(req[r]).claims.role)))
        => ~(req[r].via = "mock" /\ req[r].nextCalls > 0)

----------------------------------------------------------------------------
(* C21 *)

\* a claim, or the default that replaces a missing one
ClaimOr(v, default) == IF v = Undefined THEN default ELSE v

\* C21: for a validated token, when no store is configured or the token has no
\* id claim, the identity is id = id, else userId, else 'demo-user'; email =
\* email, else 'demo@example.com'; role = role, else 'admin'; the store is not
\* queried and the request proceeds.
C21_IdentityFromClaims ==
    \A r \in DOMAIN req :
        (/\ Returned(req[r])
         /\ req[r].via /= "none"
         /\ \A i \in DOMAIN req[r].res : req[r].res[i].code /= "TOKEN_EXPIRED"
         /\ (~dbPool.configured \/ TokenIn(req[r]).claims.id = Undefined))
        => /\ ProceededAs(req[r],
                 [id |-> ClaimOr(TokenIn(req[r]).claims.id,
                                 ClaimOr(TokenIn(req[r]).claims.userId, "demo-user")),
                  email |-> ClaimOr(TokenIn(req[r]).claims.email, "demo@example.com"),
                  role |-> ClaimOr(TokenIn(req[r]).claims.role, "admin")])
           /\ req[r].queries = 0
           /\ req[r].lookup = "none"

\* a store is configured, the token names its subject in userId only
C21_Witness ==
    \E r \in DOMAIN req :
        /\ dbPool.configured
        /\ req[r].via = "jwt"
        /\ req[r].decoded.id = Undefined
        /\ req[r].decoded.userId = "u2"
        /\ req[r].decoded.role = Undefined
        /\ req[r].pc = "proceeded"
        /\ \E u \in req[r].user : u.id = "u2" /\ u.role = "admin"

----------------------------------------------------------------------------
(* C22 *)

\* C22: in production without a demo marker, a request whose path does not
\* start with '/patients' never receives the synthetic identity, even if
\* '/patients' occurs later in the URL.
C22_PathTriggerIsPrefix ==
    \A r \in DOMAIN req :
        (/\ env.NODE_ENV = "production"
         /\ env.FLY_APP_NAME = Undefined
         /\ req[r].url[1] /= "/patients"
         /\ Returned(req[r])
         /\ (NoToken(req[r]) \/ BothAttemptsFail(req[r])))
        => req[r].nextCalls = 0 /\ req[r].user = {}

----------------------------------------------------------------------------
(* C23 *)

\* the (status, code) pairs of the interface table
InterfaceTable ==
    AuthFailures \cup {Response(401, "AUTH_REQUIRED"), Response(403, "INSUFFICIENT_PERMISSIONS")}

\* C23: an exception thrown by next() on any path of authenticateToken is
\* caught and answered 500 AUTH_ERROR (the call returns, it does not throw),
\* and every rejection ever sent is a pair of the interface table.
C23_UnhandledIsAuthError ==
    \A r \in DOMAIN req :
        /\ (req[r].nextThrows /\ req[r].nextCalls > 0)
           => /\ req[r].pc = "rejected"
              /\ req[r].res = <<Response(500, "AUTH_ERROR")>>
        /\ \A i \in DOMAIN req[r].res : req[r].res[i] \in InterfaceTable
        /\ \A i \in DOMAIN req[r].gateRes : req[r].gateRes[i] \in InterfaceTable

\* next() threw after the store had answered with the user's row
C23_Witness ==
    \E r \in DOMAIN req :
        /\ req[r].nextThrows
        /\ req[r].lookup = "answered"
        /\ req[r].user /= {}
        /\ req[r].res = <<Response(500, "AUTH_ERROR")>>

----------------------------------------------------------------------------
(* C24 *)

\* C24: with a next() that does not throw, once authenticateToken has returned
\* it has either called next() once or sent one rejection, never both and never
\* neither; before that it has done neither; the same holds for requireRole.
C24_ExactlyOneOutcome ==
    \A r \in DOMAIN req :
        ~req[r].nextThrows
        => /\ req[r].nextCalls + Len(req[r].res) = (IF Returned(req[r]) THEN 1 ELSE 0)
           /\ req[r].gateNext + Len(req[r].gateRes) = (IF req[r].gate = {} THEN 0 ELSE 1)
           /\ req[r].pc \in {"permitted", "denied"} <=> req[r].gate /= {}

C24_Witness ==
    \E r \in DOMAIN req :
        /\ req[r].lookup = "answered"
        /\ req[r].res = <<Response(401, "USER_NOT_FOUND")>>
        /\ req[r].nextCalls = 0
        /\ req[r].pc = "rejected"

----------------------------------------------------------------------------
(* C25 *)

\* the identity came from the demo fallback or got the default role
DemoOrDefaultedRole(q) ==
    \/ q.via = "none" /\ q.user = {[id |-> "demo-user", email |-> "demo@example.com", role |-> "admin"]}
    \/ q.via /= "none" /\ q.lookup = "none" /\ q.decoded.role = Undefined

----------------------------------------------------------------------------
(* server/config/database.ts: module load, initializeDatabase, healthCheck; *)
(* startServer of the start-up script                                       *)

\* no request is in flight
NoRequests == [r \in {} |-> NewRequest(NoHeader, <<>>)]

\* process.env.DATABASE_URL, DB_HOST, REDIS_URL, REDIS_HOST
DatabaseUrls == {Undefined, "postgres://db/telecheck"}
DbHosts == {Undefined, "db.internal"}
RedisUrls == {Undefined, "redis://cache:6379"}
RedisHosts == {Undefined, "cache.internal"}

\* new Pool(dbConfig), before any user is stored
NewPool == [configured |-> TRUE, users |-> EmptyStore]

\* the process before database.ts is evaluated
NewProcess(databaseUrl, dbHost, redisUrl, redisHost) ==
    [DATABASE_URL |-> databaseUrl, DB_HOST |-> dbHost,
     REDIS_URL |-> redisUrl, REDIS_HOST |-> redisHost,
     pc |-> "notLoaded",
     usePostgreSQL |-> FALSE,
     redisClient |-> "null",
     init |-> "none",
     connect |-> "none",
     server |-> "none",
     log |-> <<>>,
     listening |-> FALSE,
     handlers |-> {},
     exit |-> {},
     killedBy |-> {},
     hc |-> "idle",
     probe |-> "none",
     health |-> {}]

\* const usePostgreSQL = !!(DATABASE_URL || DB_HOST)
UsePostgreSQL(p) == Truthy(p.DATABASE_URL) \/ Truthy(p.DB_HOST)

\* the condition under which a Redis client is created
WantsRedis(e, p) ==
    Truthy(p.REDIS_URL) \/ Truthy(p.REDIS_HOST) \/ e.NODE_ENV = "production"

\* evaluation of the module: the production check throws, or the pool and the
\* Redis client are created (createClient may throw, which is swallowed)
LoadModule(e, p, createClientThrows) ==
    IF e.NODE_ENV = "production" /\ ~UsePostgreSQL(p)
    THEN [p EXCEPT !.pc = "loadFailed"]
    ELSE [p EXCEPT !.pc = "loaded",
                   !.usePostgreSQL = UsePostgreSQL(p),
                   !.redisClient = IF WantsRedis(e, p) /\ ~createClientThrows
                                   THEN "created" ELSE "null"]

\* export const dbPool = usePostgreSQL ? new Pool(dbConfig) : null
ExportedPool(p) == IF UsePostgreSQL(p) THEN NewPool ELSE NullPool

LoadDatabaseModule ==
    /\ proc.pc = "notLoaded"
    /\ \E createClientThrows \in BOOLEAN :
           proc' = LoadModule(env, proc, createClientThrows)
    /\ dbPool' = IF LoadModule(env, proc, FALSE).pc = "loaded"
                 THEN ExportedPool(proc) ELSE dbPool
    /\ UNCHANGED <<env, req, page, adapter>>

\* startServer's catch: console.error, process.exit(1)
StartFailed(p) ==
    [p EXCEPT !.pc = "exited", !.exit = {1}, !.log = Append(@, "exit 1")]

\* initializeDatabase has resolved; startServer goes on to await createServer()
InitializeDone(p) ==
    [p EXCEPT !.init = "resolved", !.pc = "awaitCreateServer", !.server = "pending"]

\* initializeDatabase up to its first await: the probe is sent, or the error
\* 'PostgreSQL is required' is thrown, logged and rethrown to startServer
InitializeStart(p, pool) ==
    IF p.usePostgreSQL /\ pool.configured
    THEN [p EXCEPT !.pc = "awaitDb", !.init = "pending"]
    ELSE StartFailed([p EXCEPT !.init = "rejected"])

\* await dbPool.query('SELECT NOW()') settles
OnSelectNow(p, ok) ==
    IF ~ok THEN StartFailed([p EXCEPT !.init = "rejected"])
    ELSE IF p.redisClient /= "null"
         THEN [p EXCEPT !.pc = "awaitRedis", !.connect = "pending"]
         ELSE InitializeDone(p)

\* (a failed Redis connection rethrown like a failed PostgreSQL probe)
RedisConnectFailureFatal(p, ok) ==
    IF ok
    THEN InitializeDone([p EXCEPT !.redisClient = "connected", !.connect = "ok"])
    ELSE StartFailed([p EXCEPT !.connect = "rejected", !.init = "rejected"])
\* await redisClient.connect() settles
OnRedisConnect(p, ok) ==
    IF ok
    THEN InitializeDone([p EXCEPT !.redisClient = "connected", !.connect = "ok"])
    ELSE InitializeDone([p EXCEPT !.redisClient = "null", !.connect = "rejected"])

\* app.listen(port, host, cb); process.on("SIGTERM"); process.on("SIGINT")
Listen(p, listenThrows) ==
    IF listenThrows
    THEN StartFailed([p EXCEPT !.log = Append(@, "listen")])
    ELSE [p EXCEPT !.pc = "running",
                   !.listening = TRUE,
                   !.handlers = {"SIGTERM", "SIGINT"},
                   !.log = @ \o <<"listen", "on SIGTERM", "on SIGINT">>]

\* (listen reached whatever createServer answered)
OnCreateServerListensAnyway(p, ok, listenThrows) ==
    Listen([p EXCEPT !.server = IF ok THEN "created" ELSE "failed"], listenThrows)
\* await createServer() settles
OnCreateServer(p, ok, listenThrows) ==
    IF ok
    THEN Listen([p EXCEPT !.server = "created"], listenThrows)
    ELSE StartFailed([p EXCEPT !.server = "failed"])

StartServer ==
    /\ proc.pc = "loaded"
    /\ proc' = InitializeStart(proc, dbPool)
    /\ UNCHANGED <<env, dbPool, req, page, adapter>>

SelectNowReplies ==
    /\ proc.pc = "awaitDb"
    /\ \E ok \in BOOLEAN : proc' = OnSelectNow(proc, ok)
    /\ UNCHANGED <<env, dbPool, req, page, adapter>>

RedisConnectReplies ==
    /\ proc.pc = "awaitRedis"
    /\ \E ok \in BOOLEAN : proc' = OnRedisConnect(proc, ok)
    /\ UNCHANGED <<env, dbPool, req, page, adapter>>

CreateServerReplies ==
    /\ proc.pc = "awaitCreateServer"
    /\ \E ok \in BOOLEAN, listenThrows \in BOOLEAN :
           proc' = OnCreateServer(proc, ok, listenThrows)
    /\ UNCHANGED <<env, dbPool, req, page, adapter>>

\* a signal reaches the process once its main module runs: the installed
\* handler exits with code 0, without a handler the signal terminates it
OnSignal(p, sig) ==
    IF sig \in p.handlers
    THEN [p EXCEPT !.pc = "exited", !.exit = {0}, !.log = Append(@, "exit 0")]
    ELSE [p EXCEPT !.pc = "exited", !.killedBy = {sig}]

Signal ==
    /\ proc.pc \notin {"notLoaded", "loadFailed", "exited"}
    /\ \E sig \in {"SIGTERM", "SIGINT"} : proc' = OnSignal(proc, sig)
    /\ UNCHANGED <<env, dbPool, req, page, adapter>>

\* what healthCheck returns
Health(status, redis) == [status |-> status, redis |-> redis]

\* healthCheck up to its first await: the probe is sent, or 'PostgreSQL not
\* configured' is thrown and caught
HealthStart(p, pool) ==
    IF p.usePostgreSQL /\ pool.configured
    THEN [p EXCEPT !.hc = "probing", !.probe = "pending", !.health = {}]
    ELSE [p EXCEPT !.probe = "unconfigured", !.health = {Health("unhealthy", Undefined)}]

\* await dbPool.query('SELECT 1') settles; redisClient is read now
OnHealthProbe(p, ok) ==
    IF ~ok
    THEN [p EXCEPT !.hc = "idle", !.probe = "failed",
                   !.health = {Health("unhealthy", Undefined)}]
    ELSE IF p.redisClient /= "null"
         THEN [p EXCEPT !.hc = "pinging", !.probe = "ok"]
         ELSE [p EXCEPT !.hc = "idle", !.probe = "ok",
                        !.health = {Health("healthy", "not_configured")}]

\* redisClient.ping().then(() => 'connected').catch(() => 'disconnected')
OnHealthPing(p, ok) ==
    [p EXCEPT !.hc = "idle",
              !.health = {Health("healthy", IF ok THEN "connected" ELSE "disconnected")}]

HealthCheck ==
    /\ proc.pc \notin {"notLoaded", "loadFailed", "exited"}
    /\ proc.hc = "idle"
    /\ proc' = HealthStart(proc, dbPool)
    /\ UNCHANGED <<env, dbPool, req, page, adapter>>

HealthProbeReplies ==
    /\ proc.pc /= "exited"
    /\ proc.hc = "probing"
    /\ \E ok \in BOOLEAN : proc' = OnHealthProbe(proc, ok)
    /\ UNCHANGED <<env, dbPool, req, page, adapter>>

\* a ping can only be answered by a server the client is connected to
HealthPingReplies ==
    /\ proc.pc /= "exited"
    /\ proc.hc = "pinging"
    /\ \E ok \in (IF proc.connect = "ok" THEN BOOLEAN ELSE {FALSE}) :
           proc' = OnHealthPing(proc, ok)
    /\ UNCHANGED <<env, dbPool, req, page, adapter>>

InitBoot ==
    /\ env \in Envs
    /\ dbPool = NullPool
    /\ req = NoRequests
    /\ proc \in {NewProcess(du, dh, ru, rh) :
                    du \in DatabaseUrls, dh \in DbHosts, ru \in RedisUrls, rh \in RedisHosts}
    /\ page = Unobserved
    /\ adapter = Unobserved

NextBoot ==
    \/ LoadDatabaseModule
    \/ StartServer
    \/ SelectNowReplies
    \/ RedisConnectReplies
    \/ CreateServerReplies
    \/ Signal
    \/ HealthCheck
    \/ HealthProbeReplies
    \/ HealthPingReplies

SpecBoot == InitBoot /\ [][NextBoot]_vars

----------------------------------------------------------------------------
(* C26 *)

\* C26: with neither DATABASE_URL nor DB_HOST set, loading the module throws
\* in production; outside production it loads with dbPool = null and
\* initializeDatabase does not fail, so that start-up does not exit.
C26_PostgresOptionalOutsideProduction ==
    (/\ proc.DATABASE_URL = Undefined
     /\ proc.DB_HOST = Undefined
     /\ proc.pc /= "notLoaded")
    => IF env.NODE_ENV = "production"
       THEN proc.pc = "loadFailed"
       ELSE /\ proc.pc /= "loadFailed"
            /\ ~dbPool.configured
            /\ proc.init /= "rejected"
            /\ proc.exit /= {1}

----------------------------------------------------------------------------
(* C27 *)

\* C27: a rejected redisClient.connect() leaves initializeDatabase resolved and
\* redisClient = null; healthCheck always returns a result: 'healthy' exactly
\* when its PostgreSQL probe succeeded, then with redis one of 'connected',
\* 'disconnected', 'not_configured'; 'unhealthy' only when PostgreSQL is not
\* configured or the probe failed.
C27_RedisOptional ==
    /\ proc.connect = "rejected"
       => proc.init = "resolved" /\ proc.redisClient = "null"
    /\ proc.hc = "idle" /\ proc.probe /= "none" => proc.health /= {}
    /\ \A h \in proc.health :
        /\ h.status \in {"healthy", "unhealthy"}
        /\ h.status = "healthy" <=> proc.probe = "ok"
        /\ h.status = "healthy" => h.redis \in {"connected", "disconnected", "not_configured"}
        /\ h.status = "unhealthy" => proc.probe \in {"unconfigured", "failed"}

\* the server runs without cache after a failed Redis connection and reports
\* itself healthy
C27_Witness ==
    /\ proc.connect = "rejected"
    /\ proc.pc = "running"
    /\ proc.health = {Health("healthy", "not_configured")}

----------------------------------------------------------------------------
(* C28 *)

\* the events of the start-up log
Logged(p, event) == \E i \in DOMAIN p.log : p.log[i] = event

\* C28: listen is called only after initializeDatabase and then createServer
\* have completed; if either fails the process exits with code 1 and listen is
\* never called; the SIGTERM and SIGINT handlers are installed only after the
\* call of listen, and exit with code 0.
C28_StartupOrder ==
    /\ proc.server /= "none" => proc.init = "resolved"
    /\ Logged(proc, "listen") => proc.init = "resolved" /\ proc.server = "created"
    /\ proc.listening => Logged(proc, "listen")
    /\ (proc.init = "rejected" \/ proc.server = "failed")
       => /\ proc.exit = {1}
          /\ proc.pc = "exited"
          /\ ~proc.listening
          /\ ~Logged(proc, "listen")
    /\ \A i \in DOMAIN proc.log :
           proc.log[i] \in {"on SIGTERM", "on SIGINT"}
           => \E j \in 1..(i - 1) : proc.log[j] = "listen"
    /\ proc.handlers /= {} => Logged(proc, "listen") /\ proc.handlers = {"SIGTERM", "SIGINT"}
    /\ proc.exit = {0} => proc.listening /\ proc.handlers /= {}

C28_Witness ==
    /\ proc.pc = "exited"
    /\ proc.exit = {0}
    /\ proc.log = <<"listen", "on SIGTERM", "on SIGINT", "exit 0">>
    /\ proc.connect = "ok"

----------------------------------------------------------------------------
(* client/pages/AdminSettings.tsx: updateMessagingConfig                    *)

\* the two fields of MessagingConfig edited by the inputs followed here
ApiKeys == {"YOUR_TELNYX_API_KEY_HERE", "KEY-A"}
PhoneNumbers == {"", "+15550100"}
MessagingConfigs == [telnyxApiKey : ApiKeys, telnyxPhoneNumber : PhoneNumbers]

\* the initial value of the messagingConfig state
DefaultMessagingConfig ==
    [telnyxApiKey |-> "YOUR_TELNYX_API_KEY_HERE", telnyxPhoneNumber |-> ""]

\* the Partial<MessagingConfig> objects the onChange handlers pass
Update(field, value) == [field |-> field, value |-> value]
Updates ==
    {Update("telnyxApiKey", v) : v \in ApiKeys}
    \cup {Update("telnyxPhoneNumber", v) : v \in PhoneNumbers}

\* { ...config, ...updates }
Merge(config, updates) == [config EXCEPT ![updates.field] = updates.value]

\* the calls of updateMessagingConfig that are followed
CallIds == {"c1", "c2"}

\* a call that has not been made
NoCall ==
    [pc |-> "idle",
     closure |-> DefaultMessagingConfig,
     updates |-> Update("telnyxApiKey", "YOUR_TELNYX_API_KEY_HERE"),
     success |-> FALSE,
     during |-> {},
     toast |-> "none"]

\* the page with its messagingConfig state and the configuration the server holds
NewPage(local, stored) ==
    [messagingConfig |-> local, server |-> stored, calls |-> [c \in CallIds |-> NoCall]]

\* the calls that have been made and have not finished
InFlight(g) == {c \in CallIds : g.calls[c].pc \in {"sent", "served"}}

\* updateMessagingConfig up to its await: the handler of the current render
\* merges the updates into the messagingConfig it closed over and sends that
CallUpdate(g, c, updates) ==
    [g EXCEPT !.calls[c] = [pc |-> "sent",
                            closure |-> g.messagingConfig,
                            updates |-> updates,
                            success |-> FALSE,
                            during |-> InFlight(g),
                            toast |-> "none"]]

\* messagingAdminService.updateConfig(payload) as the server answers it: it
\* stores the configuration it was sent and reports success, or reports failure
ServeUpdate(g, c, ok) ==
    [g EXCEPT !.server = IF ok THEN Merge(g.calls[c].closure, g.calls[c].updates) ELSE @,
              !.calls[c].success = ok,
              !.calls[c].pc = "served"]

\* the rest of updateMessagingConfig after the await
ResumeUpdate(g, c) ==
    IF g.calls[c].success
    THEN [g EXCEPT !.messagingConfig = Merge(g.calls[c].closure, g.calls[c].updates),
                   !.calls[c].pc = "done",
                   !.calls[c].toast = "Success"]
    ELSE [g EXCEPT !.calls[c].pc = "done", !.calls[c].toast = "Error"]

UpdateMessagingConfig(c) ==
    /\ page.calls[c].pc = "idle"
    /\ \E updates \in Updates : page' = CallUpdate(page, c, updates)
    /\ UNCHANGED <<env, dbPool, req, proc, adapter>>

UpdateConfigServed(c) ==
    /\ page.calls[c].pc = "sent"
    /\ \E ok \in BOOLEAN : page' = ServeUpdate(page, c, ok)
    /\ UNCHANGED <<env, dbPool, req, proc, adapter>>

UpdateConfigResumes(c) ==
    /\ page.calls[c].pc = "served"
    /\ page' = ResumeUpdate(page, c)
    /\ UNCHANGED <<env, dbPool, req, proc, adapter>>

\* the page before or after loadMessagingData has put the server's
\* configuration into the state
InitPage ==
    /\ env = Unobserved
    /\ dbPool = Unobserved
    /\ req = NoRequests
    /\ proc = Unobserved
    /\ \E stored \in MessagingConfigs :
           page \in {NewPage(DefaultMessagingConfig, stored), NewPage(stored, stored)}
    /\ adapter = Unobserved

NextPage ==
    \E c \in CallIds :
        \/ UpdateMessagingConfig(c)
        \/ UpdateConfigServed(c)
        \/ UpdateConfigResumes(c)

SpecPage == InitPage /\ [][NextPage]_vars

----------------------------------------------------------------------------
(* C29 *)

\* C29: when two calls of updateMessagingConfig that change different fields
\* overlap (the second is made before the first has finished) and both server
\* updates succeed, then once both have finished the local messagingConfig and
\* the configuration stored by the server both hold both changes, and agree.
C29_OverlappingUpdatesKept ==
    \A c1, c2 \in CallIds :
        (/\ c1 /= c2
         /\ page.calls[c1].pc = "done" /\ page.calls[c2].pc = "done"
         /\ page.calls[c1].success /\ page.calls[c2].success
         /\ c1 \in page.calls[c2].during
         /\ page.calls[c1].updates.field /= page.calls[c2].updates.field)
        => /\ page.messagingConfig[page.calls[c1].updates.field] = page.calls[c1].updates.value
           /\ page.messagingConfig[page.calls[c2].updates.field] = page.calls[c2].updates.value
           /\ page.server = page.messagingConfig

----------------------------------------------------------------------------
(* server/utils/databaseAdapter.ts: dismissHealthInsight                    *)

\* ids of health insights, and what the table holds for each
InsightIds == {"i1", "i2", "i3"}
InsightStates == {"absent", "active", "dismissed"}

\* the adapter with the health_insights table, before any call
NewAdapter(insights) ==
    [insights |-> insights,
     pc |-> "idle",
     id |-> Undefined,
     matched |-> FALSE,
     rows |-> <<>>,
     returned |-> {}]

\* PostgreSQL executing "UPDATE health_insights SET dismissed = true WHERE
\* id = $1": the statement has no RETURNING clause, so the result has no rows
UpdateDismissed(insights, id) ==
    [insights |-> [i \in InsightIds |->
                      IF i = id /\ insights[i] /= "absent" THEN "dismissed" ELSE insights[i]],
     rows |-> <<>>,
     matched |-> insights[id] /= "absent"]

\* dismissHealthInsight up to the await in query(): without a pool it throws
CallDismiss(a, pool, id) ==
    IF ~pool.configured
    THEN [a EXCEPT !.pc = "threw", !.id = id, !.matched = FALSE, !.rows = <<>>, !.returned = {}]
    ELSE [a EXCEPT !.pc = "awaiting", !.id = id, !.matched = FALSE, !.rows = <<>>, !.returned = {}]

\* dbPool.query resolves: query() returns result.rows and
\* dismissHealthInsight returns result.length > 0
ResumeDismiss(a) ==
    [a EXCEPT !.insights = UpdateDismissed(a.insights, a.id).insights,
              !.matched = UpdateDismissed(a.insights, a.id).matched,
              !.rows = UpdateDismissed(a.insights, a.id).rows,
              !.returned = {Len(UpdateDismissed(a.insights, a.id).rows) > 0},
              !.pc = "returned"]

DismissHealthInsight ==
    /\ adapter.pc /= "awaiting"
    /\ \E id \in InsightIds : adapter' = CallDismiss(adapter, dbPool, id)
    /\ UNCHANGED <<env, dbPool, req, proc, page>>

DismissQueryReplies ==
    /\ adapter.pc = "awaiting"
    /\ adapter' = ResumeDismiss(adapter)
    /\ UNCHANGED <<env, dbPool, req, proc, page>>

\* dbPool.query rejects: query() logs and rethrows
DismissQueryFails ==
    /\ adapter.pc = "awaiting"
    /\ adapter' = [adapter EXCEPT !.pc = "threw"]
    /\ UNCHANGED <<env, dbPool, req, proc, page>>

InitAdapter ==
    /\ env = Unobserved
    /\ dbPool \in {NullPool, NewPool}
    /\ req = NoRequests
    /\ proc = Unobserved
    /\ page = Unobserved
    /\ adapter \in {NewAdapter(insights) : insights \in [InsightIds -> InsightStates]}

NextAdapter ==
    \/ DismissHealthInsight
    \/ DismissQueryReplies
    \/ DismissQueryFails

SpecAdapter == InitAdapter /\ [][NextAdapter]_vars

----------------------------------------------------------------------------
(* C30 *)

\* C30: dismissHealthInsight(id) returns true exactly when an insight with
\* that id existed and was marked dismissed, and false when none exists.
C30_DismissReportsMatch ==
    adapter.pc = "returned"
    => /\ adapter.returned = {adapter.matched}
       /\ adapter.matched => adapter.insights[adapter.id] = "dismissed"

====
